---- MODULE Spec2Model ----
(***************************************************************************)
(* gitosu: turns osu! .osz exports into git commits.                       *)
(* Model of src/src/main.rs: the watcher loop, the manual import command   *)
(* and import_file (name resolution, repository bootstrap, replacement of  *)
(* the map directory, commit).                                             *)
(*                                                                         *)
(* File names and repository names are sequences of one-character strings. *)
(***************************************************************************)
EXTENDS Integers, Sequences, FiniteSets, TLC

VARIABLES
    proc,      \* the gitosu process: "stopped", "watching", "manual", "crashed"
    keep,      \* Config.keep_latest_osz, the --keep-latest-osz flag
    queue,     \* the mpsc channel from the notify watcher to the loop (rx)
    exports,   \* the exports directory: file name -> archive, or NoFile
    repos,     \* the repositories directory: name -> repository directory
    job,       \* the call of import_file in progress and its position
    pre,       \* the repositories directory when the current import started
    identity,  \* whether git can resolve an author signature (user.name/email)
    faults,    \* I/O failures injected so far
    nops,      \* filesystem operations and manual commands so far
    imported   \* per operation, the calls of import_file its events caused

vars ==
    <<proc, keep, queue, exports, repos, job, pre, identity, faults, nops,
      imported>>

------------------------------------------------------------------------------
(* Bounds of the model *)

MaxOps == 2
MaxFaults == 1
MaxSegs == 5

------------------------------------------------------------------------------
(* Strings *)

Digits == {"0", "1", "2", "3", "4", "5", "6", "7", "8", "9"}

Osz == <<".", "o", "s", "z">>

Paren(x) == <<" ", "(">> \o x \o <<")">>

NoOverride == [some |-> FALSE, val |-> <<>>]

Override(s) == [some |-> TRUE, val |-> s]

\* the text `lit` occurs in f at position k
HasLit(f, k, lit) ==
    /\ k >= 1
    /\ k + Len(lit) - 1 <= Len(f)
    /\ \A i \in 1..Len(lit) : f[k + i - 1] = lit[i]

\* `.+?` over f[a..b]: at least one character, none of them a line feed
DotPlus(f, a, b) == a <= b /\ \A i \in a..b : f[i] # "\n"

\* `\.osz` at position k
ExtAt(f, k) == HasLit(f, k, Osz)

\* ends e of ` \((\d+)\)` starting at position k
DupEnds(f, k) ==
    {e \in (k + 3)..Len(f) :
        /\ HasLit(f, k, <<" ", "(">>)
        /\ f[e] = ")"
        /\ \A i \in (k + 2)..(e - 1) : f[i] \in Digits}

\* `( \((\d+)\))?\.osz` at position k
TailAt(f, k) == ExtAt(f, k) \/ \E e \in DupEnds(f, k) : ExtAt(f, e + 1)

\* <<s, p, q>>: a match of duplicate_regex starts at s, its group 1 is
\* f[s..q], with ` (` at p and `)` at q
Captures(f) ==
    {t \in (1..Len(f)) \X {p \in 1..Len(f) : HasLit(f, p, <<" ", "(">>)}
              \X {q \in 1..Len(f) : f[q] = ")" /\ TailAt(f, q + 1)} :
        /\ DotPlus(f, t[1], t[2] - 1)
        /\ DotPlus(f, t[2] + 2, t[3] - 1)}

\* the first match if the quantifiers of group 1 were greedy
FirstCapture_greedy(f) ==
    CHOOSE t \in Captures(f) : \A u \in Captures(f) :
        \/ t[1] < u[1]
        \/ t[1] = u[1] /\ t[2] > u[2]
        \/ t[1] = u[1] /\ t[2] = u[2] /\ t[3] >= u[3]

\* the first match: leftmost start, then the lazy quantifiers take the
\* shortest text that lets the rest match
FirstCapture(f) ==
    CHOOSE t \in Captures(f) : \A u \in Captures(f) :
        \/ t[1] < u[1]
        \/ t[1] = u[1] /\ t[2] < u[2]
        \/ t[1] = u[1] /\ t[2] = u[2] /\ t[3] <= u[3]

\* import_file, lines 164-191: the repository name for a file name.
\* ok = FALSE: the slice file_name[..len - 4] panics.
ResolveName(f, ov) ==
    IF Captures(f) # {}
    THEN [ok |-> TRUE, name |-> SubSeq(f, FirstCapture(f)[1], FirstCapture(f)[3])]
    ELSE IF ov.some
    THEN [ok |-> TRUE, name |-> ov.val]
    ELSE IF Len(f) < 4
    THEN [ok |-> FALSE, name |-> <<>>]
    ELSE [ok |-> TRUE, name |-> SubSeq(f, 1, Len(f) - 4)]

------------------------------------------------------------------------------
(* Files, archives, repositories *)

\* file names that appear in the exports directory
F1 == <<"a">> \o Paren(<<"b">>) \o Osz
F2 == <<"c">> \o Paren(<<"d">>) \o Osz
F4 == <<"c">>

Names == {F1, F2, F4}

\* the value of --use-repository
Overrides == {NoOverride, Override(<<"c">>)}

\* a file of the exports directory; kind "zip": a zip container with these
\* entries, "bad": no zip container, "none": no such file
Archive(es) == [kind |-> "zip", entries |-> es]

BadZip == [kind |-> "bad", entries |-> <<>>]

NoFile == [kind |-> "none", entries |-> <<>>]

\* an archive entry: path is what enclosed_name() returns for it, esc = TRUE
\* when enclosed_name() is None (the path would leave the target directory)
Entry(p, d, e) == [path |-> p, data |-> d, esc |-> e]

\* an archive whose only entry would leave the target directory
Zip1 == Archive(<<Entry("../e", 1, TRUE)>>)

\* an archive with two files and, between them, an entry that would leave
\* the target directory
Zip2 ==
    Archive(<<Entry("a", 2, FALSE), Entry("../e", 2, TRUE),
              Entry("s/b", 2, FALSE)>>)

ZipEmpty == Archive(<<>>)

Archives == {ZipEmpty, Zip1, Zip2, BadZip}

\* data of a file whose copy was cut short
Truncated == 0

\* a tree: what git_add_all finds in the working tree (git tracks no empty
\* directory)
Tree(r) == [readme |-> r.readme, map |-> r.map, osz |-> r.osz]

EmptyTree == [readme |-> FALSE, map |-> {}, osz |-> NoFile]

\* a directory that Repository::init has just made
FreshRepo ==
    [git |-> TRUE, readme |-> FALSE, mapdir |-> FALSE, map |-> {},
     osz |-> NoFile, index |-> EmptyTree, commits |-> <<>>, head |-> 0]

\* a directory that is no repository
PlainDir == [FreshRepo EXCEPT !.git = FALSE]

\* git_add_all, lines 303-309
git_add_all(r) == [r EXCEPT !.index = Tree(r)]

\* git_initial_commit, lines 328-341: a commit without parents, HEAD moves
git_initial_commit(r) ==
    [r EXCEPT !.commits = Append(@, [id |-> Len(@) + 1, parents |-> <<>>,
                                      msg |-> "New osu! map", tree |-> r.index]),
              !.head = Len(r.commits) + 1]

\* git_commit creating a commit without parent
git_commit_orphan(r) ==
    [r EXCEPT !.commits = Append(@, [id |-> Len(@) + 1, parents |-> <<>>,
                                      msg |-> "Map update", tree |-> r.index]),
              !.head = Len(r.commits) + 1]

\* git_commit, lines 311-326: a commit whose parent is HEAD, HEAD moves
git_commit(r) ==
    [r EXCEPT !.commits = Append(@, [id |-> Len(@) + 1, parents |-> <<r.head>>,
                                      msg |-> "Map update", tree |-> r.index]),
              !.head = Len(r.commits) + 1]

\* Path::extension() == "osz", line 107
HasOszExtension(f) ==
    \E k \in 2..Len(f) :
        /\ f[k] = "."
        /\ \A i \in (k + 1)..Len(f) : f[i] # "."
        /\ SubSeq(f, k + 1, Len(f)) = <<"o", "s", "z">>

\* is_osz_path, lines 106-108
is_osz_path(f) == exports[f] # NoFile /\ HasOszExtension(f)

\* no call of import_file in progress
Idle ==
    [pc |-> "idle", path |-> <<>>, ov |-> NoOverride, name |-> <<>>,
     existed |-> FALSE, arc |-> NoFile, i |-> 0, outcome |-> "none",
     at |-> "none"]

Running == proc \in {"watching", "manual"}

\* an event of the watcher; op: the operation that caused it
Event(k, f, o) == [kind |-> k, path |-> f, op |-> o]

\* the notify thread sends to the channel only while a watcher exists
Notify(evs) == IF proc = "watching" THEN queue \o evs ELSE queue

\* repos with directory n set to r
WithRepo(n, r) ==
    [m \in DOMAIN repos \cup {n} |-> IF m = n THEN r ELSE repos[m]]

\* the call import_file(f, config, ov) begins
Begin(f, ov) ==
    /\ job' = [Idle EXCEPT !.pc = "resolve", !.path = f, !.ov = ov]
    /\ pre' = repos

\* import_file returns Err; at: the step that failed
Fail == job' = [job EXCEPT !.pc = "done", !.outcome = "err", !.at = job.pc]

\* an unwrap() or a slice panics: the process dies, and the channel with it
Panic ==
    /\ job' = [job EXCEPT !.pc = "done", !.outcome = "panic", !.at = job.pc]
    /\ proc' = "crashed"
    /\ queue' = <<>>

------------------------------------------------------------------------------
(* The environment: the exports directory and the git configuration *)

\* a file is created in the exports directory
FsCreate(f, a) ==
    /\ nops < MaxOps
    /\ nops' = nops + 1
    /\ exports' = [exports EXCEPT ![f] = a]
    /\ queue' = Notify(<<Event("create", f, nops + 1)>>)
    /\ UNCHANGED <<proc, keep, repos, job, pre, identity, faults>>
    /\ imported' = Append(imported, 0)

\* a file is renamed into place in the exports directory; notify sends the
\* From and To events and then the Both event (path: the new name; the loop
\* reads no other path of these events)
FsRename(f, a) ==
    /\ nops < MaxOps
    /\ nops' = nops + 1
    /\ exports' = [exports EXCEPT ![f] = a]
    /\ queue' = Notify(<<Event("from", f, nops + 1), Event("to", f, nops + 1),
                        Event("both", f, nops + 1)>>)
    /\ UNCHANGED <<proc, keep, repos, job, pre, identity, faults>>
    /\ imported' = Append(imported, 0)

\* a file of the exports directory is removed
FsRemove(f) ==
    /\ nops < MaxOps
    /\ exports[f] # NoFile
    /\ nops' = nops + 1
    /\ exports' = [exports EXCEPT ![f] = NoFile]
    /\ queue' = Notify(<<Event("other", f, nops + 1)>>)
    /\ UNCHANGED <<proc, keep, repos, job, pre, identity, faults>>
    /\ imported' = Append(imported, 0)

\* the watcher reports an error
WatchError ==
    /\ nops < MaxOps
    /\ proc = "watching"
    /\ nops' = nops + 1
    /\ queue' = Append(queue, Event("err", <<>>, nops + 1))
    /\ UNCHANGED <<proc, keep, exports, repos, job, pre, identity, faults>>
    /\ imported' = Append(imported, 0)

\* the user sets user.name and user.email
ConfigureIdentity ==
    /\ ~identity
    /\ ~Running
    /\ identity' = TRUE
    /\ UNCHANGED <<proc, keep, queue, exports, repos, job, pre, faults, nops,
                   imported>>

------------------------------------------------------------------------------
(* main, watcher, Commands::run *)

\* main, lines 83-99, without a subcommand: watcher, lines 101-114
LaunchWatcher ==
    /\ ~Running
    /\ proc' = "watching"
    /\ queue' = <<>>
    /\ job' = Idle
    /\ UNCHANGED <<keep, exports, repos, pre, identity, faults, nops, imported>>

\* main with the import subcommand: Commands::run, lines 284-292
LaunchManual(f, ov) ==
    /\ ~Running
    /\ nops < MaxOps
    /\ nops' = nops + 1
    /\ queue' = <<>>
    /\ IF exports[f] = NoFile
       THEN /\ proc' = "stopped"
            /\ job' = Idle
            /\ pre' = pre
       ELSE /\ proc' = "manual"
            /\ Begin(f, ov)
    /\ UNCHANGED <<keep, exports, repos, identity, faults>>
    /\ imported' = Append(imported, 0)

\* Commands::run, lines 292-298: the result is logged and the process ends
ManualExit ==
    /\ proc = "manual"
    /\ job.pc = "done"
    /\ proc' = "stopped"
    /\ UNCHANGED <<keep, queue, exports, repos, job, pre, identity, faults,
                   nops, imported>>

\* as Imports, with the RenameMode::Both arm of lines 132-134 enabled
Imports_both(ev) ==
    /\ ev.kind \in {"create", "to", "both"}
    /\ is_osz_path(ev.path)

\* the event at the head of the channel asks for an import, lines 121-144
Imports(ev) == ev.kind \in {"create", "to"} /\ is_osz_path(ev.path)

\* the loop handing the event over without waiting for import_file to return
RecvImport_not_waiting ==
    /\ proc = "watching"
    /\ queue # <<>>
    /\ Imports(Head(queue))
    /\ queue' = Tail(queue)
    /\ Begin(Head(queue).path, NoOverride)
    /\ UNCHANGED <<proc, keep, exports, repos, identity, faults, nops>>
    /\ imported' = [imported EXCEPT ![Head(queue).op] = @ + 1]

\* watcher, lines 116-144: the loop takes the next event and calls import_file
RecvImport ==
    /\ proc = "watching"
    /\ job.pc \in {"idle", "done"}
    /\ queue # <<>>
    /\ Imports(Head(queue))
    /\ queue' = Tail(queue)
    /\ Begin(Head(queue).path, NoOverride)
    /\ UNCHANGED <<proc, keep, exports, repos, identity, faults, nops>>
    /\ imported' = [imported EXCEPT ![Head(queue).op] = @ + 1]

\* watcher, lines 116-151: the loop takes the next event and drops it
RecvDiscard ==
    /\ proc = "watching"
    /\ job.pc \in {"idle", "done"}
    /\ queue # <<>>
    /\ ~Imports(Head(queue))
    /\ queue' = Tail(queue)
    /\ job' = Idle
    /\ UNCHANGED <<proc, keep, exports, repos, pre, identity, faults, nops,
                   imported>>

------------------------------------------------------------------------------
(* import_file, lines 157-281 *)

At(pc) == Running /\ job.pc = pc

\* an I/O operation may fail while the budget of failures lasts
MayFail == faults < MaxFaults

\* the repository directory of the import in progress
Repo == repos[job.name]

\* lines 164-193: the repository name
Resolve ==
    /\ At("resolve")
    /\ IF ResolveName(job.path, job.ov).ok
       THEN /\ job' = [job EXCEPT !.pc = "ensure",
                                  !.name = ResolveName(job.path, job.ov).name]
            /\ UNCHANGED <<proc, queue>>
       ELSE Panic
    /\ UNCHANGED <<keep, exports, repos, pre, identity, faults, nops, imported>>

\* an existing directory being bootstrapped again
OpenRepository_bootstraps ==
    /\ At("ensure")
    /\ job.name \in DOMAIN repos
    /\ IF Repo.git
       THEN job' = [job EXCEPT !.pc = "bootstrap", !.existed = TRUE]
       ELSE Fail
    /\ UNCHANGED <<proc, keep, queue, exports, repos, pre, identity, faults,
                   nops, imported>>

\* lines 195-205: the directory exists and is opened
OpenRepository ==
    /\ At("ensure")
    /\ job.name \in DOMAIN repos
    /\ IF Repo.git
       THEN job' = [job EXCEPT !.pc = "open", !.existed = TRUE]
       ELSE Fail
    /\ UNCHANGED <<proc, keep, queue, exports, repos, pre, identity, faults,
                   nops, imported>>

\* lines 195-216: the directory does not exist and is initialized; when
\* Repository::init fails the directory may already be there
InitRepository ==
    /\ At("ensure")
    /\ job.name \notin DOMAIN repos
    /\ \/ /\ repos' = WithRepo(job.name, FreshRepo)
          /\ job' = [job EXCEPT !.pc = "bootstrap", !.existed = FALSE]
          /\ faults' = faults
       \/ /\ MayFail
          /\ faults' = faults + 1
          /\ repos' \in {repos, WithRepo(job.name, PlainDir)}
          /\ Fail
    /\ UNCHANGED <<proc, keep, queue, exports, pre, identity, nops, imported>>

\* lines 217-228: README.md, the map directory, the initial commit
Bootstrap ==
    /\ At("bootstrap")
    /\ \/ /\ MayFail
          /\ faults' = faults + 1
          /\ repos' \in {repos, WithRepo(job.name, [Repo EXCEPT !.readme = TRUE])}
          /\ Fail
          /\ UNCHANGED <<proc, queue>>
       \/ /\ faults' = faults
          /\ IF identity
             THEN /\ repos' = WithRepo(job.name,
                        git_initial_commit(git_add_all(
                            [Repo EXCEPT !.readme = TRUE, !.mapdir = TRUE])))
                  /\ job' = [job EXCEPT !.pc = "open"]
                  /\ UNCHANGED <<proc, queue>>
             ELSE /\ repos' = WithRepo(job.name,
                        git_add_all([Repo EXCEPT !.readme = TRUE, !.mapdir = TRUE]))
                  /\ Panic
    /\ UNCHANGED <<keep, exports, pre, identity, nops, imported>>

\* the archive opened and checked after the map directory has been removed
OpenArchive_after_clear ==
    /\ At("open")
    /\ repos' = WithRepo(job.name, [Repo EXCEPT !.mapdir = FALSE, !.map = {}])
    /\ \/ /\ exports[job.path].kind = "zip"
          /\ exports[job.path].entries # <<>>
          /\ job' = [job EXCEPT !.pc = "clear", !.i = 1,
                                !.arc = exports[job.path]]
          /\ faults' = faults
       \/ /\ \/ exports[job.path].kind # "zip"
             \/ exports[job.path].entries = <<>>
          /\ job' = [job EXCEPT !.pc = "done", !.outcome = "err",
                                !.at = "open", !.arc = exports[job.path]]
          /\ faults' = faults
       \/ /\ MayFail
          /\ faults' = faults + 1
          /\ Fail
    /\ UNCHANGED <<proc, keep, queue, exports, pre, identity, nops, imported>>

\* the archive opened without the check of zip.len()
OpenArchive_unchecked ==
    /\ At("open")
    /\ \/ /\ exports[job.path].kind = "zip"
          /\ job' = [job EXCEPT !.pc = "clear", !.i = 1,
                                !.arc = exports[job.path]]
          /\ faults' = faults
       \/ /\ exports[job.path].kind # "zip"
          /\ job' = [job EXCEPT !.pc = "done", !.outcome = "err",
                                !.at = "open", !.arc = exports[job.path]]
          /\ faults' = faults
       \/ /\ MayFail
          /\ faults' = faults + 1
          /\ Fail
    /\ UNCHANGED <<proc, keep, queue, exports, repos, pre, identity, nops,
                   imported>>

\* lines 230-235: the archive is opened and must have entries; arc is the
\* file as File::open found it
OpenArchive ==
    /\ At("open")
    /\ \/ /\ exports[job.path].kind = "zip"
          /\ exports[job.path].entries # <<>>
          /\ job' = [job EXCEPT !.pc = "clear", !.i = 1,
                                !.arc = exports[job.path]]
          /\ faults' = faults
       \/ /\ \/ exports[job.path].kind # "zip"
             \/ exports[job.path].entries = <<>>
          /\ job' = [job EXCEPT !.pc = "done", !.outcome = "err",
                                !.at = "open", !.arc = exports[job.path]]
          /\ faults' = faults
       \/ /\ MayFail
          /\ faults' = faults + 1
          /\ Fail
    /\ UNCHANGED <<proc, keep, queue, exports, repos, pre, identity, nops,
                   imported>>

\* the map directory left as it is
ClearMap_keeps ==
    /\ At("clear")
    /\ job' = [job EXCEPT !.pc = IF job.arc.entries = <<>>
                                 THEN "keep" ELSE "extract"]
    /\ UNCHANGED <<proc, keep, queue, exports, repos, pre, identity, faults,
                   nops, imported>>

\* lines 237-243: the map directory is removed; a failing remove_dir_all
\* may have removed some of the files
ClearMap ==
    /\ At("clear")
    /\ \/ /\ repos' = WithRepo(job.name,
                        [Repo EXCEPT !.mapdir = FALSE, !.map = {}])
          /\ job' = [job EXCEPT !.pc = IF job.arc.entries = <<>>
                                       THEN "keep" ELSE "extract"]
          /\ faults' = faults
       \/ /\ Repo.mapdir
          /\ MayFail
          /\ faults' = faults + 1
          /\ \E left \in SUBSET Repo.map :
                repos' = WithRepo(job.name, [Repo EXCEPT !.map = left])
          /\ Fail
    /\ UNCHANGED <<proc, keep, queue, exports, pre, identity, nops, imported>>

\* the working tree after the file at path p is written with data d
WriteFile(r, p, d) ==
    [r EXCEPT !.mapdir = TRUE,
              !.map = {x \in @ : x.path # p} \cup {[path |-> p, data |-> d]}]

\* the loop writing every entry at the path its name gives, enclosed or not
ExtractEntry_unsanitized ==
    /\ At("extract")
    /\ LET e == job.arc.entries[job.i]
           next == [job EXCEPT !.i = @ + 1,
                               !.pc = IF job.i = Len(job.arc.entries)
                                      THEN "keep" ELSE "extract"]
       IN \/ /\ repos' = WithRepo(job.name, WriteFile(Repo, e.path, e.data))
             /\ job' = next
             /\ faults' = faults
          \/ /\ MayFail
             /\ faults' = faults + 1
             /\ repos' \in {repos,
                            WithRepo(job.name, [Repo EXCEPT !.mapdir = TRUE]),
                            WithRepo(job.name, WriteFile(Repo, e.path, Truncated))}
             /\ Fail
    /\ UNCHANGED <<proc, keep, queue, exports, pre, identity, nops, imported>>

\* lines 247-269: one turn of the loop over the entries; zip.by_index fails
\* before anything is written, the later calls after
ExtractEntry ==
    /\ At("extract")
    /\ LET e == job.arc.entries[job.i]
           next == [job EXCEPT !.i = @ + 1,
                               !.pc = IF job.i = Len(job.arc.entries)
                                      THEN "keep" ELSE "extract"]
       IN \/ /\ e.esc
             /\ job' = next
             /\ UNCHANGED <<repos, faults>>
          \/ /\ ~e.esc
             /\ repos' = WithRepo(job.name, WriteFile(Repo, e.path, e.data))
             /\ job' = next
             /\ faults' = faults
          \/ /\ MayFail
             /\ faults' = faults + 1
             /\ repos' \in
                   IF e.esc
                   THEN {repos}
                   ELSE {repos,
                         WithRepo(job.name, [Repo EXCEPT !.mapdir = TRUE]),
                         WithRepo(job.name, WriteFile(Repo, e.path, Truncated))}
             /\ Fail
    /\ UNCHANGED <<proc, keep, queue, exports, pre, identity, nops, imported>>

\* the archive moved to <name>.osz instead of copied
KeepOsz_moves ==
    /\ At("keep")
    /\ \/ /\ ~keep
          /\ job' = [job EXCEPT !.pc = "commit"]
          /\ UNCHANGED <<repos, faults, exports>>
       \/ /\ keep
          /\ exports[job.path] # NoFile
          /\ repos' = WithRepo(job.name, [Repo EXCEPT !.osz = exports[job.path]])
          /\ exports' = [exports EXCEPT ![job.path] = NoFile]
          /\ job' = [job EXCEPT !.pc = "commit"]
          /\ faults' = faults
       \/ /\ keep
          /\ exports[job.path] = NoFile
          /\ Fail
          /\ UNCHANGED <<repos, faults, exports>>
       \/ /\ keep
          /\ MayFail
          /\ faults' = faults + 1
          /\ Fail
          /\ UNCHANGED <<repos, exports>>
    /\ UNCHANGED <<proc, keep, queue, pre, identity, nops, imported>>

\* lines 271-274: the archive is copied to <name>.osz when asked for
KeepOsz ==
    /\ At("keep")
    /\ \/ /\ ~keep
          /\ job' = [job EXCEPT !.pc = "commit"]
          /\ UNCHANGED <<repos, faults>>
       \/ /\ keep
          /\ exports[job.path] # NoFile
          /\ repos' = WithRepo(job.name, [Repo EXCEPT !.osz = exports[job.path]])
          /\ job' = [job EXCEPT !.pc = "commit"]
          /\ faults' = faults
       \/ /\ keep
          /\ exports[job.path] = NoFile
          /\ Fail
          /\ UNCHANGED <<repos, faults>>
       \/ /\ keep
          /\ MayFail
          /\ faults' = faults + 1
          /\ Fail
          /\ repos' = repos
    /\ UNCHANGED <<proc, keep, queue, exports, pre, identity, nops, imported>>

\* lines 276-280: everything is staged and committed on top of HEAD;
\* git_commit unwraps the signature and the head commit
Commit ==
    /\ At("commit")
    /\ IF identity /\ Repo.head # 0
       THEN /\ repos' = WithRepo(job.name, git_commit(git_add_all(Repo)))
            /\ job' = [job EXCEPT !.pc = "done", !.outcome = "ok"]
            /\ UNCHANGED <<proc, queue>>
       ELSE /\ repos' = WithRepo(job.name, git_add_all(Repo))
            /\ Panic
    /\ UNCHANGED <<keep, exports, pre, identity, faults, nops, imported>>

------------------------------------------------------------------------------

Init ==
    /\ proc = "stopped"
    /\ keep \in BOOLEAN
    /\ queue = <<>>
    /\ exports = [f \in Names |-> NoFile]
    /\ repos = [n \in {} |-> FreshRepo]
    /\ job = Idle
    /\ pre = repos
    /\ identity \in BOOLEAN
    /\ faults = 0
    /\ nops = 0
    /\ imported = <<>>

Next ==
    \/ \E f \in Names, a \in Archives : FsCreate(f, a)
    \/ \E f \in Names, a \in Archives : FsRename(f, a)
    \/ \E f \in Names : FsRemove(f)
    \/ WatchError
    \/ ConfigureIdentity
    \/ LaunchWatcher
    \/ \E f \in Names, ov \in Overrides : LaunchManual(f, ov)
    \/ ManualExit
    \/ RecvImport
    \/ RecvDiscard
    \/ Resolve
    \/ OpenRepository
    \/ InitRepository
    \/ Bootstrap
    \/ OpenArchive
    \/ ClearMap
    \/ ExtractEntry
    \/ KeepOsz
    \/ Commit

Spec == Init /\ [][Next]_vars

------------------------------------------------------------------------------
(* Name resolution on its own: import_file is called with any file name
   built from a few pieces, with and without --use-repository, and runs
   up to line 193 *)

Segs == {<<"a">>, Paren(<<"a">>), Paren(<<"1">>), Osz, <<".", "7", "z">>}

RECURSIVE Concat(_)
Concat(ss) == IF ss = <<>> THEN <<>> ELSE Head(ss) \o Concat(Tail(ss))

BuiltNames == {Concat(ss) : ss \in UNION {[1..n -> Segs] : n \in 1..MaxSegs}}

InitResolve ==
    /\ proc = "manual"
    /\ keep = FALSE
    /\ queue = <<>>
    /\ exports = [f \in Names |-> NoFile]
    /\ repos = [n \in {} |-> FreshRepo]
    /\ \E f \in BuiltNames,
          ov \in {NoOverride, Override(<<"r">>), Override(<<".", ".", "/", "x">>)} :
          job = [Idle EXCEPT !.pc = "resolve", !.path = f, !.ov = ov]
    /\ pre = repos
    /\ identity = TRUE
    /\ faults = 0
    /\ nops = 0
    /\ imported = <<>>

SpecResolve == InitResolve /\ [][Resolve]_vars

------------------------------------------------------------------------------
(* Properties *)

\* import_file has returned (or panicked) with outcome o
Finished(o) == job.pc = "done" /\ job.outcome = o

\* the repository of the import as it was when the import started
Before == pre[job.name]

\* the files an archive with entries es puts into the map directory
Extracted(es) ==
    {[path |-> es[i].path, data |-> es[i].data] :
        i \in {j \in 1..Len(es) : ~es[j].esc}}

\* the map subtree of a repository directory
MapOf(r) == [dir |-> r.mapdir, files |-> r.map]

\* the commits without parent
RootCommits(r) == {i \in 1..Len(r.commits) : r.commits[i].parents = <<>>}

\* C1: a successful import into a repository that existed adds exactly one
\* commit, whose only parent is the head before the import; a successful
\* import for a name without directory adds exactly two commits, the initial
\* commit without parent and then the update commit on top of it.
C1_CommitLinearity ==
    Finished("ok") =>
        LET r == Repo
            n == Len(r.commits)
        IN  IF job.name \in DOMAIN pre
            THEN /\ Before.head # 0
                 /\ n = Len(Before.commits) + 1
                 /\ SubSeq(r.commits, 1, n - 1) = Before.commits
                 /\ r.commits[n].parents = <<Before.head>>
                 /\ r.head = r.commits[n].id
            ELSE /\ n = 2
                 /\ r.commits[1].parents = <<>>
                 /\ r.commits[2].parents = <<r.commits[1].id>>
                 /\ r.head = r.commits[2].id

\* a third commit has been added to a repository by its second import
C1_Witness ==
    /\ Finished("ok")
    /\ job.name \in DOMAIN pre
    /\ Len(Before.commits) = 2
    /\ Len(Repo.commits) = 3

C3_EmptyArchiveRefused ==
    (job.pc = "done" /\ job.arc = ZipEmpty) =>
        /\ job.outcome = "err"
        /\ job.name \in DOMAIN pre => MapOf(Repo) = MapOf(Before)

\* an archive without entries was imported into a repository holding files
C3_Witness ==
    /\ job.pc = "done"
    /\ job.arc = ZipEmpty
    /\ job.name \in DOMAIN pre
    /\ Before.map # {}

\* lines 164-193 have run
Resolved == job.pc # "resolve"

ResolvedTo(c) == job.outcome # "panic" /\ job.name = c

\* c has the form "X (Y)" with X and Y not empty
IsCanonical(c) ==
    \E x \in 1..(Len(c) - 4) :
        HasLit(c, x + 1, <<" ", "(">>) /\ c[Len(c)] = ")"

\* s is " (N)" for a number N
IsDuplicateNumber(s) ==
    /\ Len(s) >= 4
    /\ s[1] = " " /\ s[2] = "(" /\ s[Len(s)] = ")"
    /\ \A i \in 3..(Len(s) - 1) : s[i] \in Digits

\* the canonical names c such that f is "c.osz" or "c (N).osz"
CanonicalNamesOf(f) ==
    {c \in {SubSeq(f, 1, k) : k \in 1..Len(f)} :
        /\ IsCanonical(c)
        /\ Len(f) >= Len(c) + 4
        /\ SubSeq(f, Len(f) - 3, Len(f)) = Osz
        /\ \/ Len(f) = Len(c) + 4
           \/ IsDuplicateNumber(SubSeq(f, Len(c) + 1, Len(f) - 4))}

\* c is on one line, holds no ".osz" and is not itself "X' (Y') (N)", the
\* numbered duplicate of a canonical name
IsPlain(c) ==
    /\ \A k \in 1..Len(c) : c[k] # "\n" /\ ~HasLit(c, k, Osz)
    /\ \A k \in 1..Len(c) :
          ~(IsCanonical(SubSeq(c, 1, k)) /\ IsDuplicateNumber(SubSeq(c, k + 1, Len(c))))

\* C4 as stated: without override, "X (Y).osz" and "X (Y) (N).osz" resolve
\* to "X (Y)", for every canonical name "X (Y)".
C4_EveryCanonicalName ==
    (Resolved /\ ~job.ov.some) =>
        \A c \in CanonicalNamesOf(job.path) : ResolvedTo(c)

\* C4 as amended: without override, "X (Y).osz" and "X (Y) (N).osz" resolve
\* to "X (Y)", for every canonical name "X (Y)" that is on one line, holds
\* no ".osz" and is not itself the numbered duplicate "X' (Y') (N)" of a
\* canonical name.
C4_DuplicatesCollapse ==
    (Resolved /\ ~job.ov.some) =>
        \A c \in CanonicalNamesOf(job.path) : IsPlain(c) => ResolvedTo(c)

\* a numbered duplicate of a plain canonical name has been resolved
C4_Witness ==
    /\ Resolved
    /\ ~job.ov.some
    /\ \E c \in CanonicalNamesOf(job.path) :
          IsPlain(c) /\ Len(job.path) > Len(c) + 4 /\ ResolvedTo(c)

\* C5: with an override, the resolved name is the override, for every file
\* name.
C5_OverrideVerbatim ==
    (Resolved /\ job.ov.some) => ResolvedTo(job.ov.val)

\* the file name without its extension (Path::file_stem)
StripExtension(f) ==
    IF \E k \in 2..Len(f) : f[k] = "."
    THEN SubSeq(f, 1,
             (CHOOSE k \in 2..Len(f) :
                 f[k] = "." /\ \A i \in (k + 1)..Len(f) : f[i] # ".") - 1)
    ELSE f

\* C6: without override, a file name that does not match the pattern
\* resolves, without failure, to the file name with its extension stripped.
C6_FallbackStripsExtension ==
    (Resolved /\ ~job.ov.some /\ Captures(job.path) = {}) =>
        ResolvedTo(StripExtension(job.path))

C8_FailuresAreErrors == job.name \in DOMAIN repos => job.outcome # "panic"

\* C9: when an import started by the watcher fails, the watcher keeps
\* running.
C9_WatcherSurvivesFailure ==
    [][(proc = "watching" /\ job.pc # "done" /\ job'.pc = "done"
            /\ job'.outcome # "ok") => proc' = "watching"]_vars

\* C10: the watcher takes an event from the channel only when no call of
\* import_file is in progress.
C10_ImportsSerialized ==
    [][(proc = "watching" /\ proc' = "watching" /\ Len(queue') < Len(queue))
            => job.pc \in {"idle", "done"}]_vars

\* an import is extracting while the next event in the channel asks for an
\* import into the same repository
C10_Witness ==
    /\ proc = "watching"
    /\ job.pc = "extract"
    /\ queue # <<>>
    /\ Imports(Head(queue))
    /\ ResolveName(Head(queue).path, NoOverride).name = job.name

\* a step of the loop of lines 116-152 that takes an event from the channel
TakesEvent ==
    /\ proc = "watching" /\ proc' = "watching"
    /\ queue # <<>> /\ queue' = Tail(queue)

\* the step calls import_file for the path of the event it takes
CallsImport == job'.pc = "resolve" /\ job'.path = Head(queue).path

\* the event reports a file that a create or a rename has put in place
Arrival(ev) == ev.kind \in {"create", "to"} /\ HasOszExtension(ev.path)

\* C11 as stated: every .osz file put in place by a create or a rename is
\* imported when the event that reports it is handled.
C11_EveryArrivalImported ==
    [][(TakesEvent /\ Arrival(Head(queue))) => CallsImport]_vars

\* C11: an event calls import_file exactly when it is a create or a rename
\* To event whose path is an .osz file that is there when the event is taken
\* from the channel; no operation on the directory, a rename reported as
\* From, To and Both included, causes more than one call.
C11_ImportedOncePerArrival ==
    /\ [](\A k \in 1..Len(imported) : imported[k] <= 1)
    /\ [][TakesEvent =>
            (CallsImport <=>
                (Arrival(Head(queue)) /\ exports[Head(queue).path] # NoFile))]_vars

\* the import for a rename has run and the Both event of that rename is the
\* next event to be taken
C11_Witness ==
    /\ proc = "watching"
    /\ job.pc = "done"
    /\ queue # <<>>
    /\ Head(queue).kind = "both"
    /\ imported[Head(queue).op] = 1

\* the import has ended on an archive without entries, a file that is no
\* archive, or a file that could not be opened
BadInput ==
    /\ job.pc = "done"
    /\ \/ job.arc \in {ZipEmpty, BadZip}
       \/ job.at = "open" /\ job.arc = NoFile

\* the commits of every repository under the repositories directory
History(rs) ==
    [n \in DOMAIN rs |-> [commits |-> rs[n].commits, head |-> rs[n].head]]

\* C12 as stated: an import that fails on its archive leaves the commit
\* history of the repositories directory as it was, for a name without
\* repository as well as for an existing repository.
C12_HistoryUnchanged ==
    BadInput => job.outcome = "err" /\ History(repos) = History(pre)

\* C12: an import that fails on its archive returns an error and creates no
\* update commit: the history of every repository that existed, the one of
\* the import included, is as before, and a repository created by the import
\* holds its initial commit and nothing else.
C12_NoUpdateCommit ==
    BadInput =>
        /\ job.outcome = "err"
        /\ \A n \in DOMAIN pre : History(repos)[n] = History(pre)[n]
        /\ DOMAIN repos \subseteq DOMAIN pre \cup {job.name}
        /\ job.name \notin DOMAIN pre =>
              /\ Len(Repo.commits) = 1
              /\ Repo.commits[1].parents = <<>>
              /\ Repo.head = Repo.commits[1].id

\* a file that is no archive was imported under a name without repository
C12_Witness ==
    /\ BadInput
    /\ job.arc = BadZip
    /\ job.name \notin DOMAIN pre
    /\ job.name \in DOMAIN repos

\* the commit that HEAD of the repository of the import points to
HeadCommit == Repo.commits[Len(Repo.commits)]

\* C13: with keep_latest_osz, after a successful import <name>.osz in the
\* repository is the archive that was imported, and it is in the tree of the
\* commit of that import; without keep_latest_osz the import leaves
\* <name>.osz as it was.
C13_RetainsImportedArchive ==
    Finished("ok") =>
        IF keep
        THEN Repo.osz = job.arc /\ HeadCommit.tree.osz = job.arc
        ELSE Repo.osz = IF job.name \in DOMAIN pre THEN Before.osz ELSE NoFile

\* the import ran on a directory that an earlier, failed bootstrap had left
\* without commit
RetryAfterFailedBootstrap ==
    /\ job.pc = "done"
    /\ job.name \in DOMAIN pre
    /\ Before.head = 0

\* C14: an import on a directory that a failed bootstrap left without commit
\* returns an error and creates no commit in it, and a repository on which
\* an import has succeeded has a commit without parent as its first commit.
C14_FailedBootstrapUnusable ==
    /\ (RetryAfterFailedBootstrap /\ identity) =>
          job.outcome = "err" /\ Repo.commits = <<>>
    /\ Finished("ok") => 1 \in RootCommits(Repo)

\* the elements of a sequence
Range(q) == {q[i] : i \in 1..Len(q)}

\* the entries of the archives for which enclosed_name() is None
Escaping ==
    UNION {{a.entries[i] : i \in {j \in 1..Len(a.entries) : a.entries[j].esc}} :
              a \in Archives}

\* no file is at the path of an entry for which enclosed_name() is None,
\* and the commit of a successful import holds every other entry
EscapingNeverWritten ==
    /\ \A n \in DOMAIN repos :
          \A x \in repos[n].map : x.path \notin {e.path : e \in Escaping}
    /\ (Finished("ok") /\ \E e \in Escaping : e \in Range(job.arc.entries)) =>
          HeadCommit.tree.map = Extracted(job.arc.entries)

\* a turn of the loop of lines 247-269 on an entry that is read without
\* I/O failure and for which enclosed_name() is None
SkipsEntry ==
    /\ At("extract")
    /\ job.arc.entries[job.i].esc
    /\ job' # job
    /\ faults' = faults

\* C15: no file is ever written at the path of an entry that would leave
\* the map directory; the turn of the loop on such an entry writes nothing
\* and goes on to the next entry or the end of the loop; and the commit of a
\* successful import holds every other entry of the archive.
C15_EscapingEntriesSkipped ==
    /\ [][SkipsEntry =>
            /\ repos' = repos
            /\ job'.outcome = "none"
            /\ job'.i = job.i + 1]_vars
    /\ []EscapingNeverWritten

\* an archive with an escaping entry between two files has been imported
\* and its commit holds both files
C15_Witness ==
    /\ Finished("ok")
    /\ job.arc = Zip2
    /\ {x.path : x \in HeadCommit.tree.map} = {"a", "s/b"}

\* the import has ended with an error in the turn of the loop of lines
\* 247-269 on entry job.i
ExtractionFailed == Finished("err") /\ job.at = "extract"

\* the map directory of r is not what the head commit of r holds
Dirty(r) == r.head # 0 /\ r.map # r.commits[Len(r.commits)].tree.map

IsDirectChild(n) ==
    /\ n # <<>>
    /\ n \notin {<<".">>, <<".", ".">>}
    /\ \A k \in 1..Len(n) : n[k] \notin {"/", "\\"}

\* C17: the name that an import resolves to, with or without override, is
\* not empty and holds no path traversal, so that the repository is an
\* entry of the repositories directory.
C17_RepositoryIsDirectChild ==
    (Resolved /\ job.outcome # "panic") => IsDirectChild(job.name)

\* a step of import_file
ImportStep == job' # job \/ repos' # repos

\* what an import may not touch is as it was when the import started: the
\* other repositories, and in its own repository, when that existed, the
\* README, the repository metadata being there, and without keep_latest_osz
\* the copy of the archive
FrameKept ==
    job.pc # "idle" =>
        /\ DOMAIN repos \subseteq DOMAIN pre \cup {job.name}
        /\ \A n \in DOMAIN pre : n # job.name => repos[n] = pre[n]
        /\ job.name \in DOMAIN pre =>
              /\ Repo.readme = Before.readme
              /\ Repo.git = Before.git
              /\ ~keep => Repo.osz = Before.osz

WorkTree(r) == [readme |-> r.readme, map |-> MapOf(r), osz |-> r.osz]

\* C19: the map directory of a repository that existed is removed only once
\* the archive has been opened as a zip archive with at least one entry; an
\* import that fails before, because the file cannot be opened, is no zip
\* archive or has no entries, leaves every file of the repository as it was.
C19_ValidatedBeforeRemoval ==
    /\ (job.name \in DOMAIN pre /\ MapOf(Repo) # MapOf(Before)) =>
          job.arc.kind = "zip" /\ job.arc.entries # <<>>
    /\ (Finished("err") /\ job.at = "open" /\ job.name \in DOMAIN pre) =>
          /\ WorkTree(Repo) = WorkTree(Before)
          /\ Repo.index = Before.index

\* the import of a file that is no zip archive has failed on a repository
\* holding files
C19_Witness ==
    /\ Finished("err")
    /\ job.at = "open"
    /\ job.arc = BadZip
    /\ job.name \in DOMAIN pre
    /\ Before.map # {}

\* C20: a successful import leaves files under map, and the commit it
\* creates holds them.
C20_NeverCommitsEmptyMap ==
    Finished("ok") => Repo.map # {} /\ HeadCommit.tree.map # {}

====
